---------------------------- MODULE Spec2Model ----------------------------
(***************************************************************************)
(* Model of the kenlm-rs C++ shim: the Config constructor and its setters  *)
(* (src/cxx/lm/config.cc), Vocabulary::SetSpecial and the model factory    *)
(* LoadVirtualPtr (src/lm/virtual_interface.cc).                           *)
(***************************************************************************)
EXTENDS Integers, Sequences, FiniteSets

(* ------------------------------ bounds --------------------------------- *)
\* WordIndex is an unsigned integer; the model explores 0..MaxWordIndex.
MaxWordIndex == 2
\* EnumerateVocab callback objects that a caller may pass, numbered 1..NumCallbacks.
NumCallbacks == 2
\* Largest model-type tag a binary header may declare (tags above 5 are unrecognized).
MaxTag == 7
\* Number of Config objects the caller creates after the first one.
MaxConfigs == 1

(* ------------------------- program constants --------------------------- *)
NULL == 0
PROBING == 0
REST_PROBING == 1
TRIE == 2
QUANT_TRIE == 3
ARRAY_TRIE == 4
QUANT_ARRAY_TRIE == 5

WordIndex == 0..MaxWordIndex
Callbacks == 1..NumCallbacks
\* util::LoadMethod
LoadMethod == {"LAZY", "POPULATE_OR_LAZY", "POPULATE_OR_READ", "READ", "PARALLEL_READ"}

(* ------------------------------ files ---------------------------------- *)
\* File name 0 is a text (ARPA) file without binary magic; file name t+1 is
\* a binary image whose header declares model type t.
FileNames == 0..(MaxTag + 1)
IsBinaryFormat(file_name) == file_name # 0
HeaderModelType(file_name) == file_name - 1

\* bool RecognizeBinary(const char *file, ModelType &recognized): returns
\* false and leaves `recognized` untouched when the file has no binary magic,
\* otherwise stores the header's tag into `recognized` and returns true.
RecognizeBinary(file_name, recognized) ==
    IF IsBinaryFormat(file_name)
    THEN [ret |-> TRUE, recognized |-> HeaderModelType(file_name)]
    ELSE [ret |-> FALSE, recognized |-> recognized]

(* ------------------------------ Config --------------------------------- *)
\* Faulty constructors: a Config() whose initialiser list sets the given
\* prob_bits and rest_function.
ConfigWith(bits, rest) ==
    [ show_progress              |-> TRUE,
      messages                   |-> "std::cerr",
      enumerate_vocab            |-> NULL,
      unknown_missing            |-> "COMPLAIN",
      sentence_marker_missing    |-> "THROW_UP",
      positive_log_probability   |-> "THROW_UP",
      unknown_missing_logprob    |-> -100,
      probing_multiplier         |-> <<15, 10>>,
      building_memory            |-> 1073741824,
      temporary_directory_prefix |-> "",
      arpa_complain              |-> "ALL",
      write_mmap                 |-> NULL,
      write_method               |-> "WRITE_AFTER",
      include_vocab              |-> TRUE,
      rest_function              |-> rest,
      prob_bits                  |-> bits,
      backoff_bits               |-> 8,
      pointer_bhiksha_bits       |-> 22,
      load_method                |-> "POPULATE_OR_READ" ]

Config_ZeroProbBits == ConfigWith(0, "REST_MAX")

Config_RestLower == ConfigWith(8, "REST_LOWER")

\* Config::Config(): the member initialiser list.  probing_multiplier 1.5 is
\* kept as the fraction <<numerator, denominator>>.
Config ==
    [ show_progress              |-> TRUE,
      messages                   |-> "std::cerr",
      enumerate_vocab            |-> NULL,
      unknown_missing            |-> "COMPLAIN",
      sentence_marker_missing    |-> "THROW_UP",
      positive_log_probability   |-> "THROW_UP",
      unknown_missing_logprob    |-> -100,
      probing_multiplier         |-> <<15, 10>>,
      building_memory            |-> 1073741824,
      temporary_directory_prefix |-> "",
      arpa_complain              |-> "ALL",
      write_mmap                 |-> NULL,
      write_method               |-> "WRITE_AFTER",
      include_vocab              |-> TRUE,
      rest_function              |-> "REST_MAX",
      prob_bits                  |-> 8,
      backoff_bits               |-> 8,
      pointer_bhiksha_bits       |-> 22,
      load_method                |-> "POPULATE_OR_READ" ]

ConfigFields == DOMAIN Config

\* Faulty setter: also clears include_vocab.
set_load_method_ClobbersIncludeVocab(c, load_method) ==
    [c EXCEPT !.load_method = load_method, !.include_vocab = FALSE]

\* config.load_method = load_method;
set_load_method(c, load_method) == [c EXCEPT !.load_method = load_method]

\* Faulty setter: stores a null pointer instead of the callback's address.
set_enumerate_callback_StoresNull(c, enumerateCallback) ==
    [c EXCEPT !.enumerate_vocab = NULL]

\* Faulty setter: also resets load_method to its default.
set_enumerate_callback_ResetsLoadMethod(c, enumerateCallback) ==
    [c EXCEPT !.enumerate_vocab = enumerateCallback,
              !.load_method = "POPULATE_OR_READ"]

\* config.enumerate_vocab = &enumerateCallback;
set_enumerate_callback(c, enumerateCallback) ==
    [c EXCEPT !.enumerate_vocab = enumerateCallback]

(* --------------------------- LoadVirtualPtr ---------------------------- *)
\* std::make_unique<Variant>(file_name.c_str(), config)
make_unique(variant, file_name, c) ==
    [variant |-> variant, file_name |-> file_name, config |-> c]

Return(model, rb) ==
    [recognized |-> rb.ret, model_type |-> rb.recognized,
     constructed |-> <<model>>, thrown |-> "none"]

Throw(exception, rb) ==
    [recognized |-> rb.ret, model_type |-> rb.recognized,
     constructed |-> <<>>, thrown |-> exception]

\* The switch over model_type: one case per tag, default throws.
Switch(model_type, file_name, c, rb) ==
    CASE model_type = PROBING ->
           Return(make_unique("ProbingModel", file_name, c), rb)
      [] model_type = REST_PROBING ->
           Return(make_unique("RestProbingModel", file_name, c), rb)
      [] model_type = TRIE ->
           Return(make_unique("TrieModel", file_name, c), rb)
      [] model_type = QUANT_TRIE ->
           Return(make_unique("QuantTrieModel", file_name, c), rb)
      [] model_type = ARRAY_TRIE ->
           Return(make_unique("ArrayTrieModel", file_name, c), rb)
      [] model_type = QUANT_ARRAY_TRIE ->
           Return(make_unique("QuantArrayTrieModel", file_name, c), rb)
      [] OTHER ->
           Throw("FormatLoadException", rb)

\* Faulty factory: the TRIE and QUANT_TRIE cases construct each other's variant.
LoadVirtualPtr_SwappedTrieCases(file_name, c) ==
    LET rb == RecognizeBinary(file_name, PROBING)
        model_type == rb.recognized
    IN  Switch(IF model_type = TRIE THEN QUANT_TRIE
               ELSE IF model_type = QUANT_TRIE THEN TRIE ELSE model_type,
               file_name, c, rb)

\* Faulty factory: the default case falls back to ProbingModel instead of throwing.
LoadVirtualPtr_DefaultFallsBack(file_name, c) ==
    LET rb == RecognizeBinary(file_name, PROBING)
        model_type == rb.recognized
    IN  Switch(IF model_type \in PROBING..QUANT_ARRAY_TRIE THEN model_type ELSE PROBING,
               file_name, c, rb)

\* Faulty factory: model_type is initialised to TRIE instead of PROBING.
LoadVirtualPtr_InitialTrie(file_name, c) ==
    LET rb == RecognizeBinary(file_name, TRIE)
        model_type == rb.recognized
    IN  Switch(model_type, file_name, c, rb)

\* Faulty factory: a lazily loaded file is always opened as a TrieModel.
LoadVirtualPtr_LoadMethodDecides(file_name, c) ==
    LET rb == RecognizeBinary(file_name, PROBING)
        model_type == rb.recognized
    IN  Switch(IF c.load_method = "LAZY" THEN TRIE ELSE model_type, file_name, c, rb)

\* model_type starts as PROBING, RecognizeBinary may overwrite it (its return
\* value is discarded), then the switch constructs the variant or throws.
LoadVirtualPtr(file_name, c) ==
    LET rb == RecognizeBinary(file_name, PROBING)
        model_type == rb.recognized
    IN  Switch(model_type, file_name, c, rb)

(* ------------------------------- state --------------------------------- *)
VARIABLES
    config,      \* the fields of the Config object the caller holds
    config_id,   \* which Config object that is (a new one per Config_Create)
    loads,       \* the latest LoadVirtualPtr call and, if on the same file, the one before it
    vocab,       \* <<>> before construction, else <<the three reserved indices>>
    first_call,  \* arguments of the first SetSpecial call, <<>> if none yet
    last_call    \* arguments of the most recent SetSpecial call, <<>> if none yet

vars == <<config, config_id, loads, vocab, first_call, last_call>>

Init ==
    /\ config = Config
    /\ config_id = 0
    /\ loads = <<>>
    /\ vocab = <<>>
    /\ first_call = <<>>
    /\ last_call = <<>>

(* ------------------------------ actions -------------------------------- *)
\* lm::ngram::Config_Create(): the caller now holds a fresh default Config.
Config_Create ==
    /\ config_id < MaxConfigs
    /\ config' = Config
    /\ config_id' = config_id + 1
    /\ UNCHANGED <<loads, vocab, first_call, last_call>>

\* lm::base::Config_Create(): the same factory in the other namespace.
base_Config_Create ==
    /\ config_id < MaxConfigs
    /\ config' = Config
    /\ config_id' = config_id + 1
    /\ UNCHANGED <<loads, vocab, first_call, last_call>>

Config_set_load_method(load_method) ==
    /\ config' = set_load_method(config, load_method)
    /\ UNCHANGED <<config_id, loads, vocab, first_call, last_call>>

Config_set_enumerate_callback(enumerateCallback) ==
    /\ config' = set_enumerate_callback(config, enumerateCallback)
    /\ UNCHANGED <<config_id, loads, vocab, first_call, last_call>>

LoadRecord(file_name, c) ==
    [file_name |-> file_name, config |-> c, result |-> LoadVirtualPtr(file_name, c)]

\* A call LoadVirtualPtr(file_name, config); config is passed by const reference.
Load(file_name) ==
    /\ loads' = IF loads # <<>> /\ loads[1].file_name = file_name
                THEN <<LoadRecord(file_name, config), loads[1]>>
                ELSE <<LoadRecord(file_name, config)>>
    /\ UNCHANGED <<config, config_id, vocab, first_call, last_call>>

\* Vocabulary's constructor leaves the three members for SetSpecial to fill;
\* until then they hold arbitrary values.
Vocabulary ==
    /\ vocab = <<>>
    /\ \E b \in WordIndex, e \in WordIndex, n \in WordIndex :
          vocab' = <<[begin_sentence_ |-> b, end_sentence_ |-> e, not_found_ |-> n]>>
    /\ UNCHANGED <<config, config_id, loads, first_call, last_call>>

\* Faulty SetSpecial: end_sentence_ is assigned from begin_sentence.
SetSpecialFields_WrongEnd(v, begin_sentence, end_sentence, not_found) ==
    [v EXCEPT !.begin_sentence_ = begin_sentence,
              !.end_sentence_ = begin_sentence,
              !.not_found_ = not_found]

\* The three assignments of Vocabulary::SetSpecial.
SetSpecialFields(v, begin_sentence, end_sentence, not_found) ==
    [v EXCEPT !.begin_sentence_ = begin_sentence,
              !.end_sentence_ = end_sentence,
              !.not_found_ = not_found]

SetSpecial(begin_sentence, end_sentence, not_found) ==
    /\ vocab # <<>>
    /\ vocab' = <<SetSpecialFields(vocab[1], begin_sentence, end_sentence, not_found)>>
    /\ first_call' = IF first_call = <<>>
                     THEN <<<<begin_sentence, end_sentence, not_found>>>>
                     ELSE first_call
    /\ last_call' = <<<<begin_sentence, end_sentence, not_found>>>>
    /\ UNCHANGED <<config, config_id, loads>>

Next ==
    \/ Config_Create
    \/ base_Config_Create
    \/ \E m \in LoadMethod : Config_set_load_method(m)
    \/ \E cb \in Callbacks : Config_set_enumerate_callback(cb)
    \/ \E f \in FileNames : Load(f)

Spec == Init /\ [][Next]_vars

NextVocab ==
    \/ Vocabulary
    \/ \E b \in WordIndex, e \in WordIndex, n \in WordIndex : SetSpecial(b, e, n)

SpecVocab == Init /\ [][NextVocab]_vars

(* ======================= properties: the factory ======================= *)
Recognized == PROBING..QUANT_ARRAY_TRIE

VariantOf(model_type) ==
    CASE model_type = PROBING -> "ProbingModel"
      [] model_type = REST_PROBING -> "RestProbingModel"
      [] model_type = TRIE -> "TrieModel"
      [] model_type = QUANT_TRIE -> "QuantTrieModel"
      [] model_type = ARRAY_TRIE -> "ArrayTrieModel"
      [] model_type = QUANT_ARRAY_TRIE -> "QuantArrayTrieModel"

\* C1: whenever RecognizeBinary reports one of the six tags for the file,
\* LoadVirtualPtr constructs exactly one model, of the variant belonging to
\* that tag, from the file name and the config it was called with.
C1_DispatchMatchesTag ==
    \A i \in DOMAIN loads :
        LET r == loads[i] IN
        (r.result.recognized /\ r.result.model_type \in Recognized) =>
            /\ r.result.thrown = "none"
            /\ r.result.constructed =
                 <<[variant |-> VariantOf(r.result.model_type),
                    file_name |-> r.file_name,
                    config |-> r.config]>>

C1_Witness ==
    /\ Len(loads) = 2
    /\ loads[1].result.recognized /\ loads[1].result.model_type = QUANT_ARRAY_TRIE
    /\ loads[1].result.constructed # <<>>
    /\ loads[1].config # loads[2].config

SameBranch(r1, r2) ==
    /\ r1.model_type = r2.model_type
    /\ r1.thrown = r2.thrown
    /\ Len(r1.constructed) = Len(r2.constructed)
    /\ \A k \in DOMAIN r1.constructed :
          r1.constructed[k].variant = r2.constructed[k].variant

\* C10: two LoadVirtualPtr calls on the same file take the same branch of
\* the dispatch whatever the Configs passed, and a LoadVirtualPtr call
\* leaves the Config unchanged.
C10_BranchIndependentOfConfig ==
    /\ [](\A i \in DOMAIN loads, j \in DOMAIN loads :
            loads[i].file_name = loads[j].file_name =>
                SameBranch(loads[i].result, loads[j].result))
    /\ [][(\E f \in FileNames : Load(f)) => config' = config]_vars

C10_Witness ==
    /\ Len(loads) = 2
    /\ loads[1].file_name = loads[2].file_name
    /\ loads[1].config.load_method # loads[2].config.load_method
    /\ loads[1].config.enumerate_vocab # loads[2].config.enumerate_vocab
    /\ loads[1].result.thrown = "none"

(* ======================= properties: Vocabulary ======================== *)
Special(v) == <<v.begin_sentence_, v.end_sentence_, v.not_found_>>

\* C4 as stated: after the first SetSpecial call the three reserved indices
\* equal the arguments of that first call in every later state.
C4_FixedByFirstCall ==
    first_call # <<>> => Special(vocab[1]) = first_call[1]

\* C4 amended: SetSpecial assigns unconditionally, so after any SetSpecial
\* call the three reserved indices equal the arguments of the most recent
\* call.
C4_EqualsMostRecentCall ==
    last_call # <<>> => Special(vocab[1]) = last_call[1]

C4_Witness ==
    /\ first_call # <<>>
    /\ last_call # first_call
    /\ Special(vocab[1]) = last_call[1]

(* ========================= properties: Config ========================== *)
SettableFields == {"load_method", "enumerate_vocab"}

\* C5 as stated: no operation changes any field of a Config once created.
C5_ConfigImmutable ==
    [][config_id' = config_id => config' = config]_vars

\* C5 amended: on an existing Config only load_method and enumerate_vocab
\* ever change (through their setters); every other field keeps its value,
\* and LoadVirtualPtr changes no field at all.
C5_OnlySettersMutate ==
    [][config_id' = config_id =>
         /\ \A fld \in ConfigFields \ SettableFields : config'[fld] = config[fld]
         /\ config'.load_method # config.load_method =>
               \E m \in LoadMethod : Config_set_load_method(m)
         /\ config'.enumerate_vocab # config.enumerate_vocab =>
               \E cb \in Callbacks : Config_set_enumerate_callback(cb)]_vars

C5_Witness ==
    /\ config.load_method # Config.load_method
    /\ config.enumerate_vocab # Config.enumerate_vocab
    /\ loads # <<>>
    /\ loads[1].config = config

\* C6: every reachable Config has probing_multiplier > 1.0, prob_bits and
\* backoff_bits in 1..25 and pointer_bhiksha_bits non-zero.
C6_ConfigStructurallyValid ==
    /\ config.probing_multiplier[1] > config.probing_multiplier[2]
    /\ config.prob_bits \in 1..25
    /\ config.backoff_bits \in 1..25
    /\ config.pointer_bhiksha_bits > 0

C6_Witness ==
    /\ config.load_method = "READ"
    /\ config.enumerate_vocab = NumCallbacks

\* C7: a newly created Config has no enumerate-vocab callback; after
\* Config_set_enumerate_callback(cb) the field refers to cb; and a present
\* callback of an existing Config never becomes absent again.
C7_CallbackOptional ==
    /\ config.enumerate_vocab = NULL
    /\ [][/\ config_id' # config_id => config'.enumerate_vocab = NULL
          /\ \A cb \in Callbacks :
                Config_set_enumerate_callback(cb) => config'.enumerate_vocab = cb
          /\ (config_id' = config_id /\ config.enumerate_vocab # NULL) =>
                config'.enumerate_vocab # NULL]_vars
    /\ [](\A cb \in Callbacks :
            /\ set_enumerate_callback(config, cb).enumerate_vocab = cb
            /\ set_enumerate_callback(config, cb).enumerate_vocab # NULL)

C7_Witness ==
    /\ config.enumerate_vocab = 1
    /\ loads # <<>>
    /\ loads[1].config.enumerate_vocab = NumCallbacks

\* C8: rest_function is REST_MAX in every reachable Config.
C8_RestFunctionIsMax ==
    config.rest_function = "REST_MAX"

C8_Witness ==
    /\ config_id = MaxConfigs
    /\ config.load_method = "LAZY"
    /\ config.enumerate_vocab # NULL

\* C9: Config_set_load_method(m) leaves load_method = m and all other fields
\* unchanged; Config_set_enumerate_callback(cb) leaves enumerate_vocab = cb
\* and all other fields unchanged; the two setters commute.
C9_SettersFrame ==
    /\ [][/\ \A m \in LoadMethod :
                Config_set_load_method(m) =>
                    /\ config'.load_method = m
                    /\ \A fld \in ConfigFields \ {"load_method"} :
                          config'[fld] = config[fld]
          /\ \A cb \in Callbacks :
                Config_set_enumerate_callback(cb) =>
                    /\ config'.enumerate_vocab = cb
                    /\ \A fld \in ConfigFields \ {"enumerate_vocab"} :
                          config'[fld] = config[fld]]_vars
    /\ [](\A m \in LoadMethod, cb \in Callbacks :
            /\ set_load_method(set_enumerate_callback(config, cb), m)
                 = set_enumerate_callback(set_load_method(config, m), cb)
            /\ set_load_method(set_enumerate_callback(config, cb), m).load_method = m
            /\ set_enumerate_callback(set_load_method(config, m), cb).enumerate_vocab = cb)

C9_Witness ==
    /\ config.load_method = "PARALLEL_READ"
    /\ config.enumerate_vocab = 1
    /\ config_id = 0

=============================================================================
